---- MODULE Spec2Model ----
(***************************************************************************)
(* Model of src/reddit_monitor.py: RedditMonitor.run and the methods it    *)
(* calls (check_keywords, handle_keyword_match, send_email_notification).  *)
(* Text is a sequence of one-character strings, so that lower-casing and   *)
(* substring containment are computed and not assumed.                     *)
(***************************************************************************)
EXTENDS Integers, Sequences, FiniteSets, TLC

(* ------------------------------ bounds -------------------------------- *)

\* number of posts the stream hands over in one run
MaxPosts == 3

\* longest text the matcher specification enumerates
MaxTextLen == 2

\* how far past the preview cap the bodies of the formatter specification go
MaxOver == 2

(* ------------------------------- text --------------------------------- *)

Range(s) == {s[i] : i \in DOMAIN s}

Min(a, b) == IF a <= b THEN a ELSE b

\* str.lower() on one character
LowerChar(c) ==
  CASE c = "B" -> "b"
    [] c = "O" -> "o"
    [] c = "T" -> "t"
    [] c = "G" -> "g"
    [] OTHER -> c

\* str.lower()
Lower(s) == [i \in DOMAIN s |-> LowerChar(s[i])]

\* Python's  needle in hay  on str: true for the empty needle
Contains(needle, hay) ==
  \E i \in 0..(Len(hay) - Len(needle)) :
     SubSeq(hay, i + 1, i + Len(needle)) = needle

\* s[:n]
Take(s, n) == SubSeq(s, 1, Min(n, Len(s)))

\* sep.join(items)
RECURSIVE Join(_, _)
Join(items, sep) ==
  IF Len(items) = 0 THEN <<>>
  ELSE IF Len(items) = 1 THEN items[1]
  ELSE items[1] \o sep \o Join(Tail(items), sep)

\* list(a_set): every element once, in an order the run does not fix
ListsOf(S) ==
  {f \in [1..Cardinality(S) -> S] : \A i, j \in 1..Cardinality(S) : f[i] = f[j] => i = j}

(* --------------------------- input pools ------------------------------ *)

kwBot == <<"b", "o", "t">>
kwGo == <<"G", "o">>
kwEmpty == <<>>

SubredditLists == {<<>>, <<"programming">>}

KeywordLists == {<<>>, <<kwBot>>, <<kwEmpty>>, <<kwBot, kwGo>>}

addrNone == <<>>
addrOk == <<"a", "@", "b">>
addrLinefeed == <<"a", "\n", "b">>

Recipients == {addrNone, addrOk, addrLinefeed}

PostPool ==
  { [subreddit |-> "programming", title |-> <<"B", "o", "t">>, selftext |-> <<>>,
     author |-> "alice", permalink |-> <<"/", "1">>],
    [subreddit |-> "programming", title |-> <<"h", "i">>, selftext |-> <<"g", "o">>,
     author |-> "None", permalink |-> <<"/", "2">>],
    [subreddit |-> "programming", title |-> <<"h", "i">>, selftext |-> <<"x">>,
     author |-> "alice", permalink |-> <<"/", "3">>] }

NoPost == [subreddit |-> "", title |-> <<>>, selftext |-> <<>>, author |-> "None",
           permalink |-> <<>>]

NoSubject == [keywords |-> <<>>, subreddit |-> ""]

NoBody == [keywords |-> <<>>, subreddit |-> "", title |-> <<>>, author |-> <<>>,
           link |-> <<>>, preview |-> <<>>]

NoRun == [result |-> <<>>, subject |-> NoSubject]

NoMessage == [Subject |-> NoSubject, From |-> "", To |-> <<>>, content |-> NoBody]

(* ------------------------------ state --------------------------------- *)

VARIABLES
  subreddits_to_monitor,  \* self.subreddits_to_monitor
  keywords_to_monitor,    \* self.keywords_to_monitor
  case_sensitive,         \* self.config['monitoring'].get('case_sensitive', False)
  recipient_email,        \* self.recipient_email
  pc,                     \* position of run() in the code
  reason,                 \* which exit of run() was taken
  subscriptions,          \* calls of subreddit.stream.submissions
  posts,                  \* the posts pulled so far, in arrival order
  submission,             \* loop variable of run()
  matched_keywords,       \* local of run()
  subject,                \* local of handle_keyword_match
  body,                   \* local of handle_keyword_match
  log,                    \* records handed to logger
  built,                  \* per pulled post: notifications formatted
  handed,                 \* per pulled post: calls of send_email_notification
  smtp_calls,             \* per pulled post: uses of smtplib.SMTP_SSL
  smtp_errors,            \* transport calls that raised
  interrupts,             \* KeyboardInterrupts raised in the process
  stream_errors,          \* exceptions raised by advancing the stream
  msg,                    \* local of send_email_notification
  exit_status,            \* completion status of the process, -1 while it runs
  m_text,                 \* argument of a direct call of check_keywords
  m_result,               \* its return value
  m_prev,                 \* what an earlier run on the same input produced
  m_run                   \* which run this is: "first", "again" or "lowered"

cfg == <<subreddits_to_monitor, keywords_to_monitor, case_sensitive, recipient_email>>

loopVars == <<pc, reason, subscriptions, posts, submission, matched_keywords, subject,
              body, log, built, handed, smtp_calls, smtp_errors, interrupts,
              stream_errors, msg, exit_status>>

matchVars == <<m_text, m_result, m_prev, m_run>>

vars == <<cfg, loopVars, matchVars>>

(* ------------------------- Keyword Matcher ---------------------------- *)

\* found_keywords with  found_keywords.add(search_keyword)  at line 150
found_keywords_AddsNormalized(text) ==
  LET search_text == IF case_sensitive THEN text ELSE Lower(text)
      search_keyword(keyword) == IF case_sensitive THEN keyword ELSE Lower(keyword)
  IN {search_keyword(keywords_to_monitor[i]) : i \in
        {j \in DOMAIN keywords_to_monitor :
           Contains(search_keyword(keywords_to_monitor[j]), search_text)}}

\* found_keywords with  search_text = text  at line 145
found_keywords_TextNotLowered(text) ==
  LET search_text == text
      search_keyword(keyword) == IF case_sensitive THEN keyword ELSE Lower(keyword)
  IN {keywords_to_monitor[i] : i \in
        {j \in DOMAIN keywords_to_monitor :
           Contains(search_keyword(keywords_to_monitor[j]), search_text)}}

\* check_keywords, lines 143-150: the set found_keywords after the loop
found_keywords(text) ==
  LET search_text == IF case_sensitive THEN text ELSE Lower(text)
      search_keyword(keyword) == IF case_sensitive THEN keyword ELSE Lower(keyword)
  IN {keywords_to_monitor[i] : i \in
        {j \in DOMAIN keywords_to_monitor :
           Contains(search_keyword(keywords_to_monitor[j]), search_text)}}

\* check_keywords with found_keywords a list and  found_keywords.append(keyword)
check_keywords_AppendsToList(text) ==
  LET search_text == IF case_sensitive THEN text ELSE Lower(text)
      search_keyword(keyword) == IF case_sensitive THEN keyword ELSE Lower(keyword)
      hit(keyword) == Contains(search_keyword(keyword), search_text)
  IN {SelectSeq(keywords_to_monitor, hit)}

\* check_keywords, line 152: the lists  list(found_keywords)  can be
check_keywords(text) == ListsOf(found_keywords(text))

(* ----------------------- Notification Formatter ----------------------- *)

PreviewCap == 500

sepComma == <<",", " ">>

\* line 164
author_name(post) == IF post.author /= "None" THEN <<"u", "/", post.author>>
                     ELSE <<"u", "/", "[deleted]">>

\* preview with  >=  for  >  at line 169
preview_EllipsisAtCap(selftext) ==
  Take(selftext, PreviewCap) \o (IF Len(selftext) >= PreviewCap THEN <<".", ".", ".">> ELSE <<>>)

\* line 169
preview(selftext) ==
  Take(selftext, PreviewCap) \o (IF Len(selftext) > PreviewCap THEN <<".", ".", ".">> ELSE <<>>)

\* line 157: the variable parts of the subject template
format_subject(post, keywords) ==
  [keywords |-> Join(keywords, sepComma), subreddit |-> post.subreddit]

\* lines 158-173: the variable parts of the body template
format_body(post, keywords) ==
  [keywords |-> Join(keywords, sepComma),
   subreddit |-> post.subreddit,
   title |-> post.title,
   author |-> author_name(post),
   link |-> <<"https://reddit.com">> \o post.permalink,
   preview |-> preview(post.selftext)]

(* ------------------------------ logging ------------------------------- *)

\* one record handed to logger; post is the number of the post in hand
Entry(level, event, args) ==
  [level |-> level, event |-> event, post |-> Len(posts), args |-> args]

Last(s) == s[Len(s)]

Inc(counts) == [counts EXCEPT ![Len(counts)] = @ + 1]

(* --------------------------- Monitor Loop ----------------------------- *)

RunningPcs == {"pull", "check", "format", "notify", "build_msg", "send"}

Initializing == pc \in {"validate", "subscribe"}
Running == pc \in RunningPcs
Stopped == pc = "stopped"

\* an exception that reaches  except Exception  of run(), lines 201-203
RaiseInRun ==
  /\ pc' = "stopped"
  /\ reason' = "FatalStreamError"
  /\ log' = Append(log, Entry("critical", "stream_error", <<>>))

\* Validate without the return of line 184
Validate_NoReturn ==
  /\ pc = "validate"
  /\ IF subreddits_to_monitor = <<>>
     THEN /\ log' = log \o <<Entry("info", "starting", <<recipient_email>>),
                             Entry("error", "no_subreddits", <<>>)>>
          /\ reason' = "SourceListEmpty"
     ELSE /\ log' = Append(log, Entry("info", "starting", <<recipient_email>>))
          /\ UNCHANGED reason
  /\ pc' = "subscribe"
  /\ UNCHANGED <<cfg, subscriptions, posts, submission, matched_keywords, subject, body,
                 built, handed, smtp_calls, smtp_errors, interrupts, stream_errors, msg,
                 exit_status, matchVars>>

\* run(), lines 178-184
Validate ==
  /\ pc = "validate"
  /\ IF subreddits_to_monitor = <<>>
     THEN /\ log' = log \o <<Entry("info", "starting", <<recipient_email>>),
                             Entry("error", "no_subreddits", <<>>)>>
          /\ pc' = "stopped"
          /\ reason' = "SourceListEmpty"
     ELSE /\ log' = Append(log, Entry("info", "starting", <<recipient_email>>))
          /\ pc' = "subscribe"
          /\ UNCHANGED reason
  /\ UNCHANGED <<cfg, subscriptions, posts, submission, matched_keywords, subject, body,
                 built, handed, smtp_calls, smtp_errors, interrupts, stream_errors, msg,
                 exit_status, matchVars>>

\* run(), lines 186-192: the stream is created
Subscribe ==
  /\ pc = "subscribe"
  /\ subscriptions' = subscriptions + 1
  /\ pc' = "pull"
  /\ UNCHANGED <<cfg, reason, posts, submission, matched_keywords, subject, body, log,
                 built, handed, smtp_calls, smtp_errors, interrupts, stream_errors, msg,
                 exit_status, matchVars>>

\* run(), line 192: the stream hands over the next post
StreamYield ==
  /\ pc = "pull"
  /\ Len(posts) < MaxPosts
  /\ \E p \in PostPool :
       /\ p.subreddit \in Range(subreddits_to_monitor)
       /\ submission' = p
       /\ posts' = Append(posts, p)
  /\ built' = Append(built, 0)
  /\ handed' = Append(handed, 0)
  /\ smtp_calls' = Append(smtp_calls, 0)
  /\ pc' = "check"
  /\ UNCHANGED <<cfg, reason, subscriptions, matched_keywords, subject, body, log,
                 smtp_errors, interrupts, stream_errors, msg, exit_status, matchVars>>

\* StreamError with a handler that opens the stream again
StreamError_Resubscribes ==
  /\ pc = "pull"
  /\ pc' = "subscribe"
  /\ log' = Append(log, Entry("critical", "stream_error", <<>>))
  /\ stream_errors' = stream_errors + 1
  /\ UNCHANGED <<cfg, reason, subscriptions, posts, submission, matched_keywords, subject,
                 body, built, handed, smtp_calls, smtp_errors, interrupts, msg,
                 exit_status, matchVars>>

\* StreamError with the try inside the for loop: reported, and the loop goes on
StreamError_KeepsPulling ==
  /\ pc = "pull"
  /\ pc' = "pull"
  /\ reason' = "FatalStreamError"
  /\ log' = Append(log, Entry("critical", "stream_error", <<>>))
  /\ stream_errors' = stream_errors + 1
  /\ UNCHANGED <<cfg, subscriptions, posts, submission, matched_keywords, subject,
                 body, built, handed, smtp_calls, smtp_errors, interrupts, msg,
                 exit_status, matchVars>>

\* run(), lines 192 and 201-203: advancing the stream raises
StreamError ==
  /\ pc = "pull"
  /\ RaiseInRun
  /\ stream_errors' = stream_errors + 1
  /\ UNCHANGED <<cfg, subscriptions, posts, submission, matched_keywords, subject, body,
                 built, handed, smtp_calls, smtp_errors, interrupts, msg, exit_status, matchVars>>

\* CheckPost without the test of line 197
CheckPost_AlwaysNotifies ==
  /\ pc = "check"
  /\ LET content_to_check == submission.title \o <<" ">> \o submission.selftext
     IN \E m \in check_keywords(content_to_check) :
          /\ matched_keywords' = m
          /\ pc' = "format"
  /\ UNCHANGED <<cfg, reason, subscriptions, posts, submission, subject, body, log,
                 built, handed, smtp_calls, smtp_errors, interrupts, stream_errors, msg,
                 exit_status, matchVars>>

\* CheckPost with  f"{submission.title}{submission.selftext or ''}"  at line 194
CheckPost_NoSeparator ==
  /\ pc = "check"
  /\ LET content_to_check == submission.title \o submission.selftext
     IN \E m \in check_keywords(content_to_check) :
          /\ matched_keywords' = m
          /\ pc' = IF m /= <<>> THEN "format" ELSE "pull"
  /\ UNCHANGED <<cfg, reason, subscriptions, posts, submission, subject, body, log,
                 built, handed, smtp_calls, smtp_errors, interrupts, stream_errors, msg,
                 exit_status, matchVars>>

\* run(), lines 193-197
CheckPost ==
  /\ pc = "check"
  /\ LET content_to_check == submission.title \o <<" ">> \o submission.selftext
     IN \E m \in check_keywords(content_to_check) :
          /\ matched_keywords' = m
          /\ pc' = IF m /= <<>> THEN "format" ELSE "pull"
  /\ UNCHANGED <<cfg, reason, subscriptions, posts, submission, subject, body, log,
                 built, handed, smtp_calls, smtp_errors, interrupts, stream_errors, msg,
                 exit_status, matchVars>>

\* handle_keyword_match, lines 156-173
Format ==
  /\ pc = "format"
  /\ log' = Append(log, Entry("info", "found_keywords",
                              <<Join(matched_keywords, sepComma), Take(submission.title, 60)>>))
  /\ subject' = format_subject(submission, matched_keywords)
  /\ body' = format_body(submission, matched_keywords)
  /\ built' = Inc(built)
  /\ pc' = "notify"
  /\ UNCHANGED <<cfg, reason, subscriptions, posts, submission, matched_keywords,
                 handed, smtp_calls, smtp_errors, interrupts, stream_errors, msg,
                 exit_status, matchVars>>

\* Notify without the test of line 118
Notify_NoFallback ==
  /\ pc = "notify"
  /\ handed' = Inc(handed)
  /\ pc' = "build_msg"
  /\ UNCHANGED <<cfg, reason, subscriptions, posts, submission, matched_keywords, subject,
                 body, log, built, smtp_calls, smtp_errors, interrupts, stream_errors, msg,
                 exit_status, matchVars>>

\* Notify that hands the notification to a background sender and returns
Notify_DoesNotWait ==
  /\ pc = "notify"
  /\ handed' = Inc(handed)
  /\ pc' = "pull"
  /\ UNCHANGED <<cfg, reason, subscriptions, posts, submission, matched_keywords, subject,
                 body, log, built, smtp_calls, smtp_errors, interrupts, stream_errors, msg,
                 exit_status, matchVars>>

\* Notify that falls back to a default address when none was given
Notify_SetsRecipient ==
  /\ pc = "notify"
  /\ handed' = Inc(handed)
  /\ recipient_email' = IF recipient_email = <<>> THEN addrOk ELSE recipient_email
  /\ pc' = "build_msg"
  /\ UNCHANGED <<subreddits_to_monitor, keywords_to_monitor, case_sensitive, reason,
                 subscriptions, posts, submission, matched_keywords, subject, body, log,
                 built, smtp_calls, smtp_errors, interrupts, stream_errors, msg,
                 exit_status, matchVars>>

\* handle_keyword_match line 174, send_email_notification lines 118-123
Notify ==
  /\ pc = "notify"
  /\ handed' = Inc(handed)
  /\ IF recipient_email = <<>>
     THEN /\ log' = log \o <<Entry("error", "no_recipient", <<>>),
                             Entry("info", "fallback_log", <<subject, body>>)>>
          /\ pc' = "pull"
     ELSE /\ pc' = "build_msg"
          /\ UNCHANGED log
  /\ UNCHANGED <<cfg, reason, subscriptions, posts, submission, matched_keywords, subject,
                 body, built, smtp_calls, smtp_errors, interrupts, stream_errors, msg,
                 exit_status, matchVars>>

\* email.message: a header value with a linefeed or carriage return is refused
HeaderValid(value) == \A i \in DOMAIN value : value[i] \notin {"\n", "\r"}

\* send_email_notification, lines 125-130, outside its try
BuildMessage ==
  /\ pc = "build_msg"
  /\ IF HeaderValid(recipient_email)
     THEN /\ msg' = [Subject |-> subject, From |-> "sender_email",
                      To |-> recipient_email, content |-> body]
          /\ pc' = "send"
          /\ UNCHANGED <<reason, log>>
     ELSE /\ RaiseInRun
          /\ UNCHANGED msg
  /\ UNCHANGED <<cfg, subscriptions, posts, submission, matched_keywords, subject, body,
                 built, handed, smtp_calls, smtp_errors, interrupts, stream_errors,
                 exit_status, matchVars>>

\* SendOk without the logger.info of line 137
SendOk_Silent ==
  /\ pc = "send"
  /\ smtp_calls' = Inc(smtp_calls)
  /\ log' = Append(log, Entry("info", "attempt_send", <<recipient_email>>))
  /\ pc' = "pull"
  /\ UNCHANGED <<cfg, reason, subscriptions, posts, submission, matched_keywords, subject,
                 body, built, handed, smtp_errors, interrupts, stream_errors, msg,
                 exit_status, matchVars>>

\* send_email_notification, lines 132-137: the transport accepts the message
SendOk ==
  /\ pc = "send"
  /\ smtp_calls' = Inc(smtp_calls)
  /\ log' = log \o <<Entry("info", "attempt_send", <<recipient_email>>),
                     Entry("info", "sent", <<subject>>)>>
  /\ pc' = "pull"
  /\ UNCHANGED <<cfg, reason, subscriptions, posts, submission, matched_keywords, subject,
                 body, built, handed, smtp_errors, interrupts, stream_errors, msg,
                 exit_status, matchVars>>

\* SendFail without the handler of lines 138-139: the error reaches run()
SendFail_Propagates ==
  /\ pc = "send"
  /\ smtp_calls' = Inc(smtp_calls)
  /\ smtp_errors' = smtp_errors + 1
  /\ log' = log \o <<Entry("info", "attempt_send", <<recipient_email>>),
                     Entry("critical", "stream_error", <<>>)>>
  /\ pc' = "stopped"
  /\ reason' = "FatalStreamError"
  /\ UNCHANGED <<cfg, subscriptions, posts, submission, matched_keywords, subject,
                 body, built, handed, interrupts, stream_errors, msg, exit_status, matchVars>>

\* SendFail with a handler that tries the same message again
SendFail_Retries ==
  /\ pc = "send"
  /\ smtp_calls' = Inc(smtp_calls)
  /\ smtp_errors' = smtp_errors + 1
  /\ log' = log \o <<Entry("info", "attempt_send", <<recipient_email>>),
                     Entry("error", "send_error", <<subject>>)>>
  /\ pc' = "send"
  /\ UNCHANGED <<cfg, reason, subscriptions, posts, submission, matched_keywords, subject,
                 body, built, handed, interrupts, stream_errors, msg, exit_status, matchVars>>

\* send_email_notification, lines 132-136 and 138-139: the transport raises
SendFail ==
  /\ pc = "send"
  /\ smtp_calls' = Inc(smtp_calls)
  /\ smtp_errors' = smtp_errors + 1
  /\ log' = log \o <<Entry("info", "attempt_send", <<recipient_email>>),
                     Entry("error", "send_error", <<subject>>)>>
  /\ pc' = "pull"
  /\ UNCHANGED <<cfg, reason, subscriptions, posts, submission, matched_keywords, subject,
                 body, built, handed, interrupts, stream_errors, msg, exit_status, matchVars>>

\* run(), lines 199-200: KeyboardInterrupt reaches run()
Cancel ==
  /\ pc \in RunningPcs
  /\ pc' = "stopped"
  /\ reason' = "UserCancelled"
  /\ log' = Append(log, Entry("info", "stopped_by_user", <<>>))
  /\ interrupts' = interrupts + 1
  /\ UNCHANGED <<cfg, subscriptions, posts, submission, matched_keywords, subject, body,
                 built, handed, smtp_calls, smtp_errors, stream_errors, msg,
                 exit_status, matchVars>>

\* KeyboardInterrupt inside the with block of line 134, SMTP_SSL.__exit__
\* returns: the interrupt goes on to run(), lines 199-200
InterruptedSendPropagates ==
  /\ pc = "send"
  /\ smtp_calls' = Inc(smtp_calls)
  /\ log' = log \o <<Entry("info", "attempt_send", <<recipient_email>>),
                     Entry("info", "stopped_by_user", <<>>)>>
  /\ pc' = "stopped"
  /\ reason' = "UserCancelled"
  /\ interrupts' = interrupts + 1
  /\ UNCHANGED <<cfg, subscriptions, posts, submission, matched_keywords, subject, body,
                 built, handed, smtp_errors, stream_errors, msg, exit_status, matchVars>>

\* KeyboardInterrupt inside the with block of line 134, SMTP_SSL.__exit__
\* (QUIT on the connection) raises: that exception replaces the interrupt
\* and is caught at lines 138-139
InterruptedSendAbsorbed ==
  /\ pc = "send"
  /\ smtp_calls' = Inc(smtp_calls)
  /\ smtp_errors' = smtp_errors + 1
  /\ log' = log \o <<Entry("info", "attempt_send", <<recipient_email>>),
                     Entry("error", "send_error", <<subject>>)>>
  /\ pc' = "pull"
  /\ interrupts' = interrupts + 1
  /\ UNCHANGED <<cfg, reason, subscriptions, posts, submission, matched_keywords, subject,
                 body, built, handed, stream_errors, msg, exit_status, matchVars>>

\* main(), lines 232-236 and 239: run() has returned, the process ends
MainReturns ==
  /\ pc = "stopped"
  /\ exit_status = -1
  /\ exit_status' = 0
  /\ UNCHANGED <<cfg, pc, reason, subscriptions, posts, submission, matched_keywords,
                 subject, body, log, built, handed, smtp_calls, smtp_errors, interrupts,
                 stream_errors, msg, matchVars>>

Init ==
  /\ subreddits_to_monitor \in SubredditLists
  /\ keywords_to_monitor \in KeywordLists
  /\ case_sensitive \in BOOLEAN
  /\ recipient_email \in Recipients
  /\ pc = "validate"
  /\ reason = "None"
  /\ subscriptions = 0
  /\ posts = <<>>
  /\ submission = NoPost
  /\ matched_keywords = <<>>
  /\ subject = NoSubject
  /\ body = NoBody
  /\ log = <<>>
  /\ built = <<>>
  /\ handed = <<>>
  /\ smtp_calls = <<>>
  /\ smtp_errors = 0
  /\ interrupts = 0
  /\ stream_errors = 0
  /\ msg = NoMessage
  /\ exit_status = -1
  /\ m_text = <<>>
  /\ m_result = <<>>
  /\ m_prev = NoRun
  /\ m_run = "first"

Next ==
  \/ Validate
  \/ Subscribe
  \/ StreamYield
  \/ StreamError
  \/ CheckPost
  \/ Format
  \/ Notify
  \/ BuildMessage
  \/ SendOk
  \/ SendFail
  \/ Cancel
  \/ InterruptedSendPropagates
  \/ InterruptedSendAbsorbed
  \/ MainReturns

Spec == Init /\ [][Next]_vars

(* --------------- the matcher called on enumerated inputs -------------- *)

MatchChars == {"b", "B", " "}

RECURSIVE TextsUpTo(_)
TextsUpTo(n) ==
  IF n = 0 THEN {<<>>}
  ELSE TextsUpTo(n - 1) \cup {Append(t, c) : t \in TextsUpTo(n - 1), c \in MatchChars}

MatchKeywordLists ==
  {<<k>> : k \in TextsUpTo(MaxTextLen)} \cup
  {<<k1, k2>> : k1 \in TextsUpTo(1), k2 \in TextsUpTo(MaxTextLen)} \cup {<<>>}

InitMatch ==
  /\ subreddits_to_monitor = <<"programming">>
  /\ keywords_to_monitor \in MatchKeywordLists
  /\ case_sensitive \in BOOLEAN
  /\ recipient_email = addrOk
  /\ pc = "m_call"
  /\ reason = "None"
  /\ subscriptions = 0
  /\ posts = <<>>
  /\ submission = NoPost
  /\ matched_keywords = <<>>
  /\ subject = NoSubject
  /\ body = NoBody
  /\ log = <<>>
  /\ built = <<>>
  /\ handed = <<>>
  /\ smtp_calls = <<>>
  /\ smtp_errors = 0
  /\ interrupts = 0
  /\ stream_errors = 0
  /\ msg = NoMessage
  /\ exit_status = -1
  /\ m_text \in TextsUpTo(MaxTextLen)
  /\ m_result = <<>>
  /\ m_prev = NoRun
  /\ m_run = "first"

\* a call of check_keywords(m_text)
MatchCall ==
  /\ pc = "m_call"
  /\ m_result' \in check_keywords(m_text)
  /\ pc' = "m_done"
  /\ UNCHANGED <<cfg, reason, subscriptions, posts, submission, matched_keywords, subject,
                 body, log, built, handed, smtp_calls, smtp_errors, interrupts,
                 stream_errors, msg, exit_status,
                 m_text, m_prev, m_run>>

\* a second monitor whose text and keywords are the lower-cased ones of the
\* first, lines 145 and 148 applied by the caller
RerunLowered ==
  /\ pc = "m_done"
  /\ m_run = "first"
  /\ m_prev' = [result |-> m_result, subject |-> NoSubject]
  /\ m_text' = Lower(m_text)
  /\ keywords_to_monitor' = [i \in DOMAIN keywords_to_monitor |-> Lower(keywords_to_monitor[i])]
  /\ m_run' = "lowered"
  /\ pc' = "m_call"
  /\ UNCHANGED <<subreddits_to_monitor, case_sensitive, recipient_email, reason,
                 subscriptions, posts, submission, matched_keywords, subject, body, log,
                 built, handed, smtp_calls, smtp_errors, interrupts, stream_errors, msg,
                 exit_status, m_result>>

NextMatch == MatchCall \/ RerunLowered

SpecMatch == InitMatch /\ [][NextMatch]_vars

(* ------------- the formatter called on enumerated posts --------------- *)

\* a body of the given length whose characters around the cap differ
LongText(len, fill) ==
  [i \in 1..len |-> IF i = PreviewCap THEN "c" ELSE IF i = PreviewCap + 1 THEN "d" ELSE fill]

BodyLengths == (0..2) \cup ((PreviewCap - MaxOver)..(PreviewCap + MaxOver))

FormatPosts ==
  {[subreddit |-> "programming", title |-> t, selftext |-> LongText(len, fill),
    author |-> a, permalink |-> <<"/", "1">>] :
      t \in {<<"B", "o", "t">>}, len \in BodyLengths, fill \in {"x", "t"},
      a \in {"alice", "None"}}

\* run() has pulled one post and found keywords in it, line 198
InitFormat ==
  /\ subreddits_to_monitor = <<"programming">>
  /\ keywords_to_monitor \in KeywordLists
  /\ case_sensitive \in BOOLEAN
  /\ recipient_email = addrOk
  /\ pc = "format"
  /\ reason = "None"
  /\ subscriptions = 1
  /\ submission \in FormatPosts
  /\ posts = <<submission>>
  /\ matched_keywords \in check_keywords(submission.title \o <<" ">> \o submission.selftext)
  /\ matched_keywords # <<>>
  /\ subject = NoSubject
  /\ body = NoBody
  /\ log = <<[level |-> "info", event |-> "starting", post |-> 0,
              args |-> <<recipient_email>>]>>
  /\ built = <<0>>
  /\ handed = <<0>>
  /\ smtp_calls = <<0>>
  /\ smtp_errors = 0
  /\ interrupts = 0
  /\ stream_errors = 0
  /\ msg = NoMessage
  /\ exit_status = -1
  /\ m_text = <<>>
  /\ m_result = <<>>
  /\ m_prev = NoRun
  /\ m_run = "first"

NextFormat == Format

SpecFormat == InitFormat /\ [][NextFormat]_vars

(* ------- matching and formatting of one post, run a second time ------- *)

PipeKeywordLists ==
  {<<k>> : k \in TextsUpTo(MaxTextLen)} \cup
  {<<k1, k2>> : k1 \in TextsUpTo(1), k2 \in TextsUpTo(1)}

PipePosts ==
  {[subreddit |-> "programming", title |-> t, selftext |-> b, author |-> "alice",
    permalink |-> <<"/", "1">>] : t \in TextsUpTo(MaxTextLen), b \in TextsUpTo(1)}

\* run() has pulled its first post, line 192
InitPipe ==
  /\ subreddits_to_monitor = <<"programming">>
  /\ keywords_to_monitor \in PipeKeywordLists
  /\ case_sensitive \in BOOLEAN
  /\ recipient_email = addrOk
  /\ pc = "check"
  /\ reason = "None"
  /\ subscriptions = 1
  /\ submission \in PipePosts
  /\ posts = <<submission>>
  /\ matched_keywords = <<>>
  /\ subject = NoSubject
  /\ body = NoBody
  /\ log = <<[level |-> "info", event |-> "starting", post |-> 0,
              args |-> <<recipient_email>>]>>
  /\ built = <<0>>
  /\ handed = <<0>>
  /\ smtp_calls = <<0>>
  /\ smtp_errors = 0
  /\ interrupts = 0
  /\ stream_errors = 0
  /\ msg = NoMessage
  /\ exit_status = -1
  /\ m_text = <<>>
  /\ m_result = <<>>
  /\ m_prev = NoRun
  /\ m_run = "first"

\* the program is started again with the same configuration and the stream
\* hands over the same post: what the first run produced is kept in m_prev
RunAgain ==
  /\ pc = "notify"
  /\ m_run = "first"
  /\ m_prev' = [result |-> matched_keywords, subject |-> subject]
  /\ m_run' = "again"
  /\ pc' = "check"
  /\ matched_keywords' = <<>>
  /\ subject' = NoSubject
  /\ body' = NoBody
  /\ log' = <<log[1]>>
  /\ built' = <<0>>
  /\ UNCHANGED <<cfg, reason, subscriptions, posts, submission, handed, smtp_calls,
                 smtp_errors, interrupts, stream_errors, msg, exit_status, m_text,
                 m_result>>

NextPipe == CheckPost \/ Format \/ RunAgain

SpecPipe == InitPipe /\ [][NextPipe]_vars

(* ------------------------------ claims -------------------------------- *)

\* the text run() hands to check_keywords for a post, line 194
content_of(post) == post.title \o <<" ">> \o post.selftext

\* post number i has left the per-post step
Finished(i) == i < Len(posts) \/ pc \in {"pull", "stopped"}

\* C1: whenever the mail-transport call made for a matched post raises, the
\* failure is logged as an error, the loop is still Running with no stop
\* reason, and its next step is pulling the next post from the stream.
C1_DeliveryFailureIsNonFatal ==
  [][smtp_errors' > smtp_errors =>
       /\ pc' = "pull"
       /\ reason' = "None"
       /\ Last(log').level = "error"
       /\ Last(log').event = "send_error"]_vars

C1_Witness ==
  /\ smtp_errors > 0
  /\ interrupts = 0
  /\ Len(posts) = 2
  /\ smtp_calls[1] = 1
  /\ pc = "check"

\* C2: a step taken while a post is being matched, formatted or delivered,
\* other than the arrival of a cancellation signal, never stops the loop:
\* an error of the per-post step does not escape it.
C2_PerPostErrorsNeverEscape ==
  [][(pc \in {"check", "format", "notify", "build_msg", "send"} /\ interrupts' = interrupts)
       => pc' # "stopped"]_vars

\* C3: when advancing the stream raises, the loop is Stopped with reason
\* FatalStreamError; afterwards no post is pulled and nothing moves; and the
\* stream is created at most once in a run.
C3_StreamErrorIsTerminal ==
  [][/\ stream_errors' > stream_errors => (pc' = "stopped" /\ reason' = "FatalStreamError")
     /\ stream_errors > 0 => (posts' = posts /\ subscriptions' = subscriptions /\ pc' = pc)
     /\ subscriptions' <= 1]_vars

C3_Witness ==
  /\ stream_errors = 1
  /\ pc = "stopped"
  /\ reason = "FatalStreamError"
  /\ subscriptions = 1
  /\ Len(posts) = 1

\* C4: with an empty source list the loop is only ever Initializing or
\* Stopped with reason SourceListEmpty, the stream is never created, no post
\* is pulled and the Notifier is never called; Running implies a non-empty
\* source list.
C4_EmptySourceListNeverSubscribes ==
  /\ subreddits_to_monitor = <<>> =>
       /\ pc \in {"validate", "stopped"}
       /\ pc = "stopped" => reason = "SourceListEmpty"
       /\ subscriptions = 0
       /\ posts = <<>>
       /\ handed = <<>>
       /\ smtp_calls = <<>>
  /\ Running => subreddits_to_monitor # <<>>

C4_Witness ==
  /\ subreddits_to_monitor = <<>>
  /\ pc = "stopped"
  /\ reason = "SourceListEmpty"
  /\ Len(log) = 2

\* C5: once the loop is Stopped, or a stop reason has been reported, no
\* step changes the state, the reason, the pulled posts, the match result,
\* the notification, the delivery counts or the log.
C5_StoppedIsTerminal ==
  [][(pc = "stopped" \/ reason # "None") =>
       /\ pc = "stopped"
       /\ reason \in {"UserCancelled", "SourceListEmpty", "FatalStreamError"}
       /\ UNCHANGED <<pc, reason, subscriptions, posts, submission, matched_keywords,
                      subject, body, msg, built, handed, smtp_calls, log>>]_vars

C5_Witness ==
  /\ pc = "stopped"
  /\ reason = "UserCancelled"
  /\ Len(posts) = 1
  /\ built[1] = 1

\* C6: every cancellation signal that arrives while the loop is Running
\* takes it to Stopped with reason UserCancelled, with no further post
\* pulled and no delivery-failure record in its place.
C6_CancelAlwaysStops ==
  [][(Running /\ interrupts' > interrupts) =>
       /\ pc' = "stopped"
       /\ reason' = "UserCancelled"
       /\ posts' = posts
       /\ smtp_errors' = smtp_errors]_vars

\* C7: with an empty recipient, a call of the Notifier returns to the loop
\* (still Running, next step pulling) with the transport not invoked and with
\* a fallback log record holding the subject and the body; in such a run the
\* transport is never invoked at all.
C7_NoRecipientFallsBackToLog ==
  [][/\ (recipient_email = <<>> /\ Len(handed') = Len(handed) /\ handed' # handed) =>
          /\ pc' = "pull"
          /\ reason' = "None"
          /\ smtp_calls' = smtp_calls
          /\ Last(log').event = "fallback_log"
          /\ Last(log').args = <<subject, body>>
          /\ subject = format_subject(submission, matched_keywords)
          /\ body = format_body(submission, matched_keywords)
     /\ recipient_email = <<>> => \A i \in DOMAIN smtp_calls' : smtp_calls'[i] = 0]_vars

C7_Witness ==
  /\ recipient_email = <<>>
  /\ Len(posts) = 2
  /\ handed[1] = 1
  /\ pc = "check"
  /\ \E i \in DOMAIN log : log[i].event = "fallback_log"

\* C8: for a pulled post whose match result is empty no notification is
\* formatted, the Notifier is not called and the transport is not invoked.
C8_NoMatchNoNotification ==
  \A i \in DOMAIN posts :
     found_keywords(content_of(posts[i])) = {} =>
        /\ built[i] = 0
        /\ handed[i] = 0
        /\ smtp_calls[i] = 0

C8_Witness ==
  /\ keywords_to_monitor # <<>>
  /\ Len(posts) = 2
  /\ found_keywords(content_of(posts[1])) = {}
  /\ found_keywords(content_of(posts[2])) # {}
  /\ pc = "notify"

\* C9 as stated: every pulled post with a non-empty match result that has
\* left the per-post step had exactly one notification built and handed to
\* the Notifier, and at most one transport call.
C9_ExactlyOneNotification ==
  \A i \in DOMAIN posts :
     (found_keywords(content_of(posts[i])) # {} /\ Finished(i)) =>
        /\ built[i] = 1
        /\ handed[i] = 1
        /\ smtp_calls[i] <= 1

\* C9 amended: for every pulled post at most one notification is built, the
\* Notifier is called at most once and the transport at most once; the
\* message is addressed to the configured recipient; and a post with a
\* non-empty match result after which the loop went back to pulling had
\* exactly one notification built and handed to the Notifier.
C9_AtMostOneNotification ==
  /\ \A i \in DOMAIN posts :
        /\ built[i] <= 1
        /\ handed[i] <= built[i]
        /\ smtp_calls[i] <= handed[i]
        /\ (found_keywords(content_of(posts[i])) # {} /\ (i < Len(posts) \/ pc = "pull")) =>
              (built[i] = 1 /\ handed[i] = 1)
  /\ pc = "send" => msg.To = recipient_email

C9_Witness ==
  /\ Len(posts) = 2
  /\ smtp_errors = 1
  /\ built[1] = 1
  /\ handed[1] = 1
  /\ smtp_calls[1] = 1
  /\ msg.To = addrOk
  /\ pc = "check"

\* C10: the list check_keywords returns never holds the empty string.
C10_EmptyKeywordNeverMatches ==
  pc = "m_done" => \A i \in DOMAIN m_result : m_result[i] # <<>>

\* the comparison form of a string over MatchChars: itself when matching is
\* case-sensitive, lower-cased otherwise
Normalized(str) ==
  IF case_sensitive THEN str ELSE [i \in DOMAIN str |-> IF str[i] = "B" THEN "b" ELSE str[i]]

\* needle lies in hay between two cut points
OccursIn(needle, hay) ==
  \E a \in 0..Len(hay) : \E b \in a..Len(hay) : SubSeq(hay, a + 1, b) = needle

\* C11: the list check_keywords returns holds exactly the configured
\* keywords, in their configured spelling, whose comparison form occurs in
\* the comparison form of the text: none is missing and none is added.
C11_MatchIsExactlyContainedKeywords ==
  pc = "m_done" =>
     Range(m_result) =
        {k \in Range(keywords_to_monitor) : OccursIn(Normalized(k), Normalized(m_text))}

C11_Witness ==
  /\ pc = "m_done"
  /\ ~case_sensitive
  /\ Len(keywords_to_monitor) = 2
  /\ Len(m_result) = 1
  /\ m_result[1] = <<"B">>
  /\ m_text = <<" ", "b">>

\* C12 as stated: with case-sensitivity off, the match result on the
\* lower-cased text and lower-cased keywords is the match result on the
\* original text and keywords.
C12_LowerCasingKeepsResult ==
  (pc = "m_done" /\ m_run = "lowered" /\ ~case_sensitive) =>
     Range(m_result) = Range(m_prev.result)

\* C12 amended: with case-sensitivity off, the match result on the
\* lower-cased text and lower-cased keywords is the original match result
\* with each keyword lower-cased: the same keywords match, in the spelling
\* they are configured in.
C12_LowerCasingLowersResult ==
  (pc = "m_done" /\ m_run = "lowered" /\ ~case_sensitive) =>
     Range(m_result) = {Lower(k) : k \in Range(m_prev.result)}

C12_Witness ==
  /\ pc = "m_done"
  /\ m_run = "lowered"
  /\ ~case_sensitive
  /\ m_prev.result = <<(<<"B">>)>>
  /\ m_result = <<(<<"b">>)>>
  /\ Len(keywords_to_monitor) = 2

\* C19: the list check_keywords returns holds no string twice, also when
\* the configured list names a keyword twice or the text holds it twice.
C19_MatchResultHasNoDuplicates ==
  pc = "m_done" =>
     \A i, j \in DOMAIN m_result : m_result[i] = m_result[j] => i = j

C19_Witness ==
  /\ pc = "m_done"
  /\ keywords_to_monitor = <<(<<"b">>), (<<"b">>)>>
  /\ m_text = <<"b", "b">>
  /\ m_result = <<(<<"b">>)>>

\* C13: in the formatted body, the preview of a post body of at most 500
\* characters is the body itself, without the ellipsis; the preview of a
\* longer body is its first 500 characters followed by the ellipsis.
C13_TruncationLaw ==
  pc = "notify" =>
     LET text == submission.selftext
     IN /\ Len(text) <= 500 => body.preview = text
        /\ Len(text) > 500 =>
             /\ Len(body.preview) = 503
             /\ \A i \in 1..500 : body.preview[i] = text[i]
             /\ \A i \in 501..503 : body.preview[i] = "."

C13_Witness ==
  /\ pc = "notify"
  /\ Len(submission.selftext) = 500
  /\ body.preview = submission.selftext
  /\ body.preview[500] = "c"

\* C14: a run that ended on an empty source list or on a stream error
\* finishes with a completion status other than zero.
C14_FatalErrorGivesNonZeroStatus ==
  (reason \in {"SourceListEmpty", "FatalStreamError"} /\ exit_status >= 0) => exit_status > 0

\* C15: a second run of the program on the same post with the same
\* configuration produces the subject the first run produced, with the
\* matched keywords listed in the same order.
C15_SameInputSameSubject ==
  (m_run = "again" /\ pc = "notify") =>
     /\ subject = m_prev.subject
     /\ matched_keywords = m_prev.result

\* a character sequence without a space
SpaceFree(str) == \A i \in DOMAIN str : str[i] # " "

\* the keyword occurs in the text, both in their comparison form
Matches(keyword, text) == OccursIn(Normalized(keyword), Normalized(text))

\* C20: a configured keyword is in the match result of a post exactly if it
\* occurs in title, one space, body; and a keyword without a space is in the
\* match result exactly if it occurs in the title alone or in the body alone.
C20_SpaceFreeKeywordNeverStraddles ==
  (pc \in {"format", "pull"}) =>
     \A k \in Range(keywords_to_monitor) :
        /\ k \in Range(matched_keywords) <=>
              Matches(k, submission.title \o <<" ">> \o submission.selftext)
        /\ SpaceFree(k) =>
              (k \in Range(matched_keywords) <=>
                 (Matches(k, submission.title) \/ Matches(k, submission.selftext)))

C20_Witness ==
  /\ pc = "format"
  /\ submission.title = <<"b">>
  /\ submission.selftext = <<"B">>
  /\ keywords_to_monitor = <<(<<"b", " ">>)>>
  /\ matched_keywords = keywords_to_monitor
  /\ ~Matches(keywords_to_monitor[1], submission.title)
  /\ ~Matches(keywords_to_monitor[1], submission.selftext)

\* the log records that close a delivery attempt
Outcomes == {"sent", "send_error", "fallback_log"}

\* the positions in the log of the records of the given events about post i
RecordsOf(i, events) == {j \in DOMAIN log : log[j].post = i /\ log[j].event \in events}

\* C16: a post is pulled only when the loop is waiting on the stream, and
\* then the post before it either had no match and no notification, or had
\* its one notification formatted and handed over and its delivery attempt
\* closed (sent, failed, or written to the log); no step touches the counts
\* of an earlier post; and the log is in feed-arrival order.
C16_OnePostAtATime ==
  [][/\ Len(posts') > Len(posts) =>
          /\ pc = "pull"
          /\ Len(posts') = Len(posts) + 1
          /\ Len(posts) > 0 =>
                LET i == Len(posts)
                IN IF found_keywords(content_of(posts[i])) = {}
                   THEN built[i] = 0 /\ handed[i] = 0
                   ELSE /\ built[i] = 1
                        /\ handed[i] = 1
                        /\ smtp_calls[i] = IF recipient_email = <<>> THEN 0 ELSE 1
                        /\ Last(log).post = i
                        /\ Last(log).event \in Outcomes
     /\ \A i \in 1..(Len(posts) - 1) :
          /\ built'[i] = built[i]
          /\ handed'[i] = handed[i]
          /\ smtp_calls'[i] = smtp_calls[i]
     /\ \A j, k \in DOMAIN log' : j <= k => log'[j].post <= log'[k].post]_vars

C16_Witness ==
  /\ Len(posts) = 2
  /\ pc = "send"
  /\ smtp_calls = <<1, 0>>
  /\ handed = <<1, 1>>

C18_ConfigNeverChanges ==
  [][/\ subreddits_to_monitor' = subreddits_to_monitor
     /\ keywords_to_monitor' = keywords_to_monitor
     /\ case_sensitive' = case_sensitive
     /\ recipient_email' = recipient_email]_vars

C18_Witness ==
  /\ Len(posts) = 2
  /\ pc = "stopped"
  /\ recipient_email = <<>>
  /\ handed = <<1, 1>>
  /\ exit_status = 0

====
